---- MODULE Spec2Model ----
(***************************************************************************)
(* A model of app/services/epic_games_service.py: promotion discovery      *)
(* (get_promotions), the agent's reconciliation and gating (EpicAgent) and *)
(* the checkout orchestrator (EpicGames).                                  *)
(*                                                                         *)
(* Python strings whose content the code inspects are sequences of         *)
(* one-character strings, so that upper(), lower(), strip(), len() and the *)
(* substring test "x in s" are computed and not assumed.                   *)
(***************************************************************************)
EXTENDS Integers, Sequences, FiniteSets, TLC

----------------------------------------------------------------------------
(* Bounds of the model *)

MaxOrders == 2
MaxItems == 1
MaxOffers == 2
MaxWords == 2
MaxCalls == 2
MaxPurchaseTries == 2
MaxPaid == 1
MaxNewOrders == 1

----------------------------------------------------------------------------
(* Strings *)

LowerLetters ==
  <<"a", "b", "c", "d", "e", "f", "g", "h", "i", "j", "k", "l", "m",
    "n", "o", "p", "q", "r", "s", "t", "u", "v", "w", "x", "y", "z">>

UpperLetters ==
  <<"A", "B", "C", "D", "E", "F", "G", "H", "I", "J", "K", "L", "M",
    "N", "O", "P", "Q", "R", "S", "T", "U", "V", "W", "X", "Y", "Z">>

UpperChar(c) ==
  IF \E i \in 1..26 : LowerLetters[i] = c
  THEN UpperLetters[CHOOSE i \in 1..26 : LowerLetters[i] = c]
  ELSE c

LowerChar(c) ==
  IF \E i \in 1..26 : UpperLetters[i] = c
  THEN LowerLetters[CHOOSE i \in 1..26 : UpperLetters[i] = c]
  ELSE c

\* str.upper()
Upper(s) == [i \in 1..Len(s) |-> UpperChar(s[i])]

\* str.lower()
Lower(s) == [i \in 1..Len(s) |-> LowerChar(s[i])]

\* sub in s
Contains(s, sub) ==
  \E i \in 1..(Len(s) - Len(sub) + 1) : SubSeq(s, i, i + Len(sub) - 1) = sub

\* str.strip()
Strip(s) ==
  LET solid == {i \in 1..Len(s) : s[i] # " "}
  IN  IF solid = {} THEN <<>>
      ELSE SubSeq(s, CHOOSE i \in solid : \A j \in solid : i <= j,
                     CHOOSE i \in solid : \A j \in solid : j <= i)

\* The sequences over S of length lo..hi
SeqsOf(S, lo, hi) == UNION {[1..n -> S] : n \in lo..hi}

----------------------------------------------------------------------------
(* Order history: EpicAgent._sync_order_history *)

NamespaceLen == 32

\* Namespaces are strings as TLC has them: Len is the number of characters.
NsA == "aaaaaaaaaaaaaaaaaaaaaaaaaaaaaaaa"
NsB == "bbbbbbbbbbbbbbbbbbbbbbbbbbbbbbbb"
NsShort == "ccccccccccccccccccccccccccccccc"
NsLong == "ddddddddddddddddddddddddddddddddd"
NsEmpty == ""

OrderItem(ns) == [namespace |-> ns]

\* A record of data["orders"]. shape "malformed": Order(**_order) raises.
Order(type, items) == [shape |-> "ok", orderType |-> type, items |-> items]
MalformedOrder == [shape |-> "malformed", orderType |-> "", items |-> <<>>]

\* A mutant: longer namespaces pass
RetainedItemsAtLeast(order) ==
  SelectSeq(order.items, LAMBDA item : Len(item.namespace) >= NamespaceLen)

\* The items of one order that the loop of lines 123-126 appends

RetainedItems(order) ==
  SelectSeq(order.items,
            LAMBDA item : ~(item.namespace = "" \/ Len(item.namespace) # NamespaceLen))

\* The loop of lines 119-126 over the remaining records; completed_orders is
\* acc. An exception leaves the loop with what was appended before it.
RECURSIVE ExtractOrders(_, _)
ExtractOrders(records, acc) ==
  IF records = <<>> THEN [completed |-> acc, failed |-> FALSE]
  ELSE LET _order == Head(records) IN
       IF _order.shape # "ok" THEN [completed |-> acc, failed |-> TRUE]
       ELSE IF _order.orderType # "PURCHASE" THEN ExtractOrders(Tail(records), acc)
       ELSE ExtractOrders(Tail(records), acc \o RetainedItems(_order))

\* What the order-history page answers: nav "timeout" (page.goto raises),
\* body "invalid" (json.loads raises), "no_orders" (data["orders"] raises),
\* "json" (a payload with its records).
HistoryPage(nav, body, records) == [nav |-> nav, body |-> body, records |-> records]

\* A mutant: a failed extraction keeps nothing
SyncOrderHistoryEmptyOnFailure(_orders, page) ==
  IF _orders # <<>>
  THEN [orders |-> _orders, navigated |-> FALSE, failed |-> FALSE]
  ELSE IF page.nav # "ok" \/ page.body # "json"
  THEN [orders |-> <<>>, navigated |-> TRUE, failed |-> TRUE]
  ELSE LET r == ExtractOrders(page.records, <<>>)
       IN  [orders |-> IF r.failed THEN <<>> ELSE r.completed,
            navigated |-> TRUE, failed |-> r.failed]

\* A mutant: the page is read whatever the session holds
SyncOrderHistoryEveryTime(_orders, page) ==
  IF page.nav # "ok" \/ page.body # "json"
  THEN [orders |-> <<>>, navigated |-> TRUE, failed |-> TRUE]
  ELSE LET r == ExtractOrders(page.records, <<>>)
       IN  [orders |-> r.completed, navigated |-> TRUE, failed |-> r.failed]

\* _sync_order_history: the new self._orders, whether the page was visited
\* and whether the except branch ran.
SyncOrderHistory(_orders, page) ==
  IF _orders # <<>>
  THEN [orders |-> _orders, navigated |-> FALSE, failed |-> FALSE]
  ELSE IF page.nav # "ok" \/ page.body # "json"
  THEN [orders |-> <<>>, navigated |-> TRUE, failed |-> TRUE]
  ELSE LET r == ExtractOrders(page.records, <<>>)
       IN  [orders |-> r.completed, navigated |-> TRUE, failed |-> r.failed]

----------------------------------------------------------------------------
(* Discovery: get_promotions *)

URL_PRODUCT_PAGE == "https://store.epicgames.com/en-US/p/"

URL_PRODUCT_BUNDLES == "https://store.epicgames.com/en-US/bundles/"

S_bundle == <<"b", "u", "n", "d", "l", "e">>
S_Collection == <<"C", "o", "l", "l", "e", "c", "t", "i", "o", "n">>

\* base_url.rstrip('/') of lines 86-90. URLs and slugs are strings as TLC has
\* them, which it can concatenate but not take apart: the two values base_url
\* takes are stripped by hand.
RStripSlash(base_url) ==
  IF base_url = URL_PRODUCT_BUNDLES
  THEN "https://store.epicgames.com/en-US/bundles"
  ELSE "https://store.epicgames.com/en-US/p"

\* An element of promotionalOffers[0].promotionalOffers: shape "malformed"
\* has no discountSetting.discountPercentage (KeyError or TypeError).
Offer(pct) == [shape |-> "ok", discountPercentage |-> pct]
MalformedOffer == [shape |-> "malformed", discountPercentage |-> -1]

\* The loop of lines 41-43 over the remaining offers. A malformed offer
\* raises inside the suppress block, which ends the function with None.
RECURSIVE ScanOffers(_)
ScanOffers(offers) ==
  IF offers = <<>> THEN FALSE
  ELSE IF Head(offers).shape # "ok" THEN FALSE
  ELSE IF Head(offers).discountPercentage = 0 THEN TRUE
  ELSE ScanOffers(Tail(offers))

\* A mutant: only the first offer is looked at
IsDiscountGameFirstOnly(prot) ==
  /\ prot.promotions = "offers"
  /\ prot.offers # <<>>
  /\ Head(prot.offers).shape = "ok"
  /\ Head(prot.offers).discountPercentage = 0

\* is_discount_game. prot.promotions tells how line 40 ends: "missing"
\* (KeyError), "null" (TypeError), "empty" (IndexError) or "offers", the
\* array then being prot.offers.
is_discount_game(prot) ==
  /\ prot.promotions = "offers"
  /\ ScanOffers(prot.offers)

\* Lines 68-79
IsBundle(e) ==
  \/ e.offerType = "BUNDLE"
  \/ \E i \in 1..Len(e.categories) : Contains(Lower(e.categories[i]), S_bundle)
  \/ Contains(e.title, S_Collection)

\* A mutant: the product slug comes before the offer mappings
DeriveUrlProductFirst(e) ==
  LET base_url == IF IsBundle(e) THEN URL_PRODUCT_BUNDLES ELSE URL_PRODUCT_PAGE
      prefix == RStripSlash(base_url) \o "/"
  IN  IF e.productSlug # ""
      THEN [raised |-> FALSE, url |-> prefix \o e.productSlug]
      ELSE IF e.offerMappings # <<>>
      THEN IF e.offerMappings[1].absent
           THEN [raised |-> TRUE, url |-> ""]
           ELSE [raised |-> FALSE, url |-> prefix \o e.offerMappings[1].pageSlug]
      ELSE [raised |-> FALSE,
            url |-> prefix \o (IF e.hasUrlSlug THEN e.urlSlug ELSE "unknown")]

\* Lines 81-93: the URL, or the KeyError/IndexError of the slug extraction.
\* An offer mapping is [pageSlug |-> s, absent |-> FALSE], or
\* [pageSlug |-> "", absent |-> TRUE] when it has no pageSlug key.
DeriveUrl(e) ==
  LET base_url == IF IsBundle(e) THEN URL_PRODUCT_BUNDLES ELSE URL_PRODUCT_PAGE
      prefix == RStripSlash(base_url) \o "/"
  IN  IF e.offerMappings # <<>>
      THEN IF e.offerMappings[1].absent
           THEN [raised |-> TRUE, url |-> ""]
           ELSE [raised |-> FALSE, url |-> prefix \o e.offerMappings[1].pageSlug]
      ELSE IF e.productSlug # ""
      THEN [raised |-> FALSE, url |-> prefix \o e.productSlug]
      ELSE [raised |-> FALSE,
            url |-> prefix \o (IF e.hasUrlSlug THEN e.urlSlug ELSE "unknown")]

\* PromotionGame(**e): the fields the service reads
PromotionGame(e) == [namespace |-> e.namespace, title |-> e.title, url |-> DeriveUrl(e).url]

\* The loop of lines 61-96 over the remaining elements
RECURSIVE CollectPromotions(_, _)
CollectPromotions(elements, promotions) ==
  IF elements = <<>> THEN promotions
  ELSE LET e == Head(elements) IN
       IF ~is_discount_game(e) THEN CollectPromotions(Tail(elements), promotions)
       ELSE IF DeriveUrl(e).raised THEN CollectPromotions(Tail(elements), promotions)
       ELSE CollectPromotions(Tail(elements), Append(promotions, PromotionGame(e)))

\* What the promotions endpoint answers: status "network_error" (httpx.get
\* raises), "invalid_json" (resp.json() raises JSONDecodeError),
\* "bad_shape" (data["data"]["Catalog"]["searchStore"]["elements"] raises)
\* or "ok" with the elements.
Response(status, elements) == [status |-> status, elements |-> elements]

\* get_promotions: the list returned, or raised
get_promotions(resp) ==
  IF resp.status = "invalid_json" THEN [raised |-> FALSE, promotions |-> <<>>]
  ELSE IF resp.status # "ok" THEN [raised |-> TRUE, promotions |-> <<>>]
  ELSE [raised |-> FALSE, promotions |-> CollectPromotions(resp.elements, <<>>)]

----------------------------------------------------------------------------
(* State *)

VARIABLES
  promotions,                \* EpicAgent._promotions
  ctx_cookies_is_available,  \* EpicAgent._ctx_cookies_is_available
  orders,                    \* EpicAgent._orders
  namespaces,                \* EpicAgent._namespaces
  pc,                        \* where the collect_epic_games call stands
  ignore,                    \* what _should_ignore_task returned
  exc,                       \* the exception in flight, "none" if none
  attempt,                   \* the attempt of collect_weekly_games, 0 before it
  urls,                      \* collect_weekly_games: urls
  idx,                       \* add_promotion_to_cart: the next URL
  has_pending_cart_items,    \* add_promotion_to_cart: the flag
  wait_rerender,             \* _empty_cart: the countdown
  purchaseTries,             \* invocations of _purchase_free_game in the attempt
  accountOrders,             \* the account's order records (the remote history)
  cartPaid,                  \* paid line items in the shop's cart
  nCalls,                    \* collect_epic_games calls on this agent
  calls,                     \* the operations the current call has run
  step,                      \* what the last step did
  status,                    \* the isloggedin attribute the current call read
  lastCheck,                 \* how the latest _check_orders ended
  discovered,                \* what the latest get_promotions returned
  newOrders,                 \* the account got an order since the latest check
  cartClicked,               \* a cart control was clicked in this attempt
  historyPage,               \* SpecExtract: the order-history page answered
  response,                  \* SpecDiscovery: the response of the endpoint
  btn_text,                  \* SpecClassify: the text of the purchase control
  route,                     \* SpecClassify: the route taken for it
  flow                       \* SpecInstant: how the steps of the flow end

vars ==
  <<promotions, ctx_cookies_is_available, orders, namespaces, pc, ignore, exc,
    attempt, urls, idx, has_pending_cart_items, wait_rerender, purchaseTries,
    accountOrders, cartPaid, nCalls, calls, step, status, lastCheck,
    discovered, newOrders, cartClicked, historyPage, response, btn_text, route,
    flow>>

agentVars == <<promotions, ctx_cookies_is_available, orders, namespaces>>
weeklyVars ==
  <<attempt, urls, idx, has_pending_cart_items, wait_rerender, purchaseTries,
    cartPaid, cartClicked>>
checkVars == <<lastCheck, discovered, newOrders>>
inputVars == <<historyPage, response, btn_text, route, flow>>

----------------------------------------------------------------------------
(* What the environment may answer *)

SlugPage == "page-slug"
SlugProduct == "product-slug"
SlugUrl == "url-slug"
TitleGame == <<"G", "a", "m", "e">>
TitleCollection == <<"X", " ", "C", "o", "l", "l", "e", "c", "t", "i", "o", "n">>
PathGames == <<"g", "a", "m", "e", "s">>
PathBundles == <<"B", "u", "n", "d", "l", "e", "s", "/", "G", "a", "m", "e", "s">>

PageSlugMapping(slug) == [pageSlug |-> slug, absent |-> FALSE]
NoPageSlugMapping == [pageSlug |-> "", absent |-> TRUE]

\* An element of the catalog with the given namespace, promotions shape,
\* offers and offer mappings, and plain values elsewhere
Element(ns, shape, offers, mappings) ==
  [namespace |-> ns, title |-> TitleGame, promotions |-> shape, offers |-> offers,
   offerType |-> "BASE_GAME", categories |-> <<PathGames>>,
   offerMappings |-> mappings, productSlug |-> SlugProduct,
   hasUrlSlug |-> TRUE, urlSlug |-> SlugUrl]

FreeGame(ns) == Element(ns, "offers", <<Offer(0)>>, <<PageSlugMapping(SlugPage)>>)
PaidGame(ns) == Element(ns, "offers", <<Offer(50)>>, <<PageSlugMapping(SlugPage)>>)

\* The responses of the promotions endpoint during a session
SessionResponses ==
  {Response("network_error", <<>>), Response("invalid_json", <<>>),
   Response("bad_shape", <<>>), Response("ok", <<FreeGame(NsA)>>),
   Response("ok", <<FreeGame(NsA), FreeGame(NsB)>>),
   Response("ok", <<PaidGame(NsA), FreeGame(NsB)>>)}

\* The order records of the account when the session starts
SessionHistories ==
  {<<>>,
   <<Order("PURCHASE", <<OrderItem(NsA)>>)>>,
   <<Order("PURCHASE", <<OrderItem(NsA)>>), MalformedOrder>>,
   <<Order("REFUND", <<OrderItem(NsA)>>), Order("PURCHASE", <<OrderItem(NsShort)>>)>>}

\* The order-history pages the endpoint may answer for the records
HistoryPages(records) ==
  {HistoryPage("ok", "json", records), HistoryPage("timeout", "json", records),
   HistoryPage("ok", "invalid", records)}

\* The ways a browser operation ends
Outcomes == {"ok", "TimeoutError", "Error"}

----------------------------------------------------------------------------
(* EpicAgent *)

NamespacesOf(_orders) == [i \in 1..Len(_orders) |-> _orders[i].namespace]

Owned(_namespaces, ns) == \E i \in 1..Len(_namespaces) : _namespaces[i] = ns

\* A mutant: nothing is filtered out
PendingAll(found, _namespaces) == found

\* Line 134: the filter

Pending(found, _namespaces) ==
  SelectSeq(found, LAMBDA p : ~Owned(_namespaces, p.namespace))

\* Line 133: the owned namespaces, kept once they are not empty
OwnedNamespaces(_namespaces, _orders) ==
  IF _namespaces # <<>> THEN _namespaces ELSE NamespacesOf(_orders)

\* _check_orders on the fields of the agent, the history page and the response
CheckOrders(_orders, _namespaces, _promotions, pg, rs) ==
  LET s == SyncOrderHistory(_orders, pg)
      ns == OwnedNamespaces(_namespaces, s.orders)
      g == get_promotions(rs)
  IN  [orders |-> s.orders, namespaces |-> ns,
       promotions |-> IF g.raised THEN _promotions ELSE Pending(g.promotions, ns),
       raised |-> g.raised, navigated |-> s.navigated, syncFailed |-> s.failed,
       found |-> g.promotions]

\* _check_orders as a step of the current call
CheckOrdersStep(pg, rs) ==
  LET r == CheckOrders(orders, namespaces, promotions, pg, rs) IN
  /\ orders' = r.orders
  /\ namespaces' = r.namespaces
  /\ promotions' = r.promotions
  /\ lastCheck' = IF r.raised THEN "raised" ELSE "ok"
  /\ discovered' = IF r.raised THEN discovered ELSE r.found
  /\ newOrders' = IF r.raised THEN newOrders ELSE FALSE
  /\ calls' = calls \cup {"sync", "discovery"}
               \cup (IF r.navigated THEN {"history_page"} ELSE {})
               \cup (IF r.syncFailed THEN {"sync_failed"} ELSE {})
               \cup (IF "sync" \in calls THEN {"check_orders_again"} ELSE {})

\* collect_weekly_games is entered for its n-th attempt (lines 376-378)
StartAttempt(n, _promotions) ==
  /\ attempt' = n
  /\ urls' = [i \in 1..Len(_promotions) |-> _promotions[i].url]
  /\ idx' = 1
  /\ has_pending_cart_items' = FALSE
  /\ purchaseTries' = 0
  /\ wait_rerender' = 0
  /\ cartClicked' = FALSE
  /\ UNCHANGED cartPaid

\* The host calls collect_epic_games
CollectEpicGames ==
  /\ pc \in {"idle", "returned", "raised"}
  /\ nCalls < MaxCalls
  /\ nCalls' = nCalls + 1
  /\ pc' = "should_ignore"
  /\ exc' = "none"
  /\ calls' = {}
  /\ status' = "unread"
  /\ step' = "called"
  /\ attempt' = 0
  /\ urls' = <<>>
  /\ idx' = 0
  /\ has_pending_cart_items' = FALSE
  /\ purchaseTries' = 0
  /\ wait_rerender' = 0
  /\ cartClicked' = FALSE
  /\ UNCHANGED <<agentVars, ignore, accountOrders, cartPaid, checkVars, inputVars>>

\* A mutant: the task is ignored when the user is not logged in
NotLoggedInResultTrue == TRUE

\* Line 142: what _should_ignore_task returns when isloggedin is "false"
NotLoggedInResult == FALSE

\* A mutant: the task is never ignored after a check
NothingPendingNever(_promotions) == FALSE

\* Lines 145-147: what _should_ignore_task returns after _check_orders
NothingPending(_promotions) == _promotions = <<>>

\* _should_ignore_task (lines 136-147)
ShouldIgnoreTask ==
  /\ pc = "should_ignore"
  /\ \E nav \in {"ok", "TimeoutError"} :
       IF nav # "ok"
       THEN /\ ctx_cookies_is_available' = FALSE
            /\ pc' = "raised"
            /\ exc' = nav
            /\ step' = "claim_page_failed"
            /\ UNCHANGED <<promotions, orders, namespaces, ignore, status, calls,
                           checkVars>>
       ELSE \E st \in {"true", "false", "none"} :
              /\ status' = st
              /\ IF st = "false"
                 THEN /\ ctx_cookies_is_available' = FALSE
                      /\ ignore' = NotLoggedInResult
                      /\ pc' = "gate"
                      /\ step' = "not_logged_in"
                      /\ UNCHANGED <<promotions, orders, namespaces, exc, calls,
                                     checkVars>>
                 ELSE \E pg \in HistoryPages(accountOrders), rs \in SessionResponses :
                        /\ ctx_cookies_is_available' = TRUE
                        /\ CheckOrdersStep(pg, rs)
                        /\ IF lastCheck' = "raised"
                           THEN /\ pc' = "raised"
                                /\ exc' = "Error"
                                /\ step' = "check_raised"
                                /\ UNCHANGED ignore
                           ELSE /\ pc' = "gate"
                                /\ ignore' = NothingPending(promotions')
                                /\ step' = "check_ok"
                                /\ UNCHANGED exc
  /\ UNCHANGED <<weeklyVars, accountOrders, nCalls, inputVars>>

\* A mutant: the check of line 154 is missing
CookiesUnavailableNever == FALSE

\* Line 154
CookiesUnavailable == ~ctx_cookies_is_available

\* collect_epic_games after the gate (lines 150-170, up to the call of the
\* orchestrator). The locals of _should_ignore_task are gone afterwards.
Gate ==
  /\ pc = "gate"
  /\ IF ignore \/ CookiesUnavailable
     THEN /\ pc' = "returned"
          /\ step' = IF ignore THEN "all_owned" ELSE "aborted"
          /\ UNCHANGED <<agentVars, exc, weeklyVars, calls, checkVars>>
     ELSE IF promotions = <<>>
     THEN \E pg \in HistoryPages(accountOrders), rs \in SessionResponses :
            /\ CheckOrdersStep(pg, rs)
            /\ UNCHANGED ctx_cookies_is_available
            /\ IF lastCheck' = "raised"
               THEN /\ pc' = "raised"
                    /\ exc' = "Error"
                    /\ step' = "check_raised"
                    /\ UNCHANGED weeklyVars
               ELSE IF promotions' = <<>>
               THEN /\ pc' = "returned"
                    /\ step' = "all_owned"
                    /\ UNCHANGED <<exc, weeklyVars>>
               ELSE /\ pc' = "add_to_cart"
                    /\ step' = "handed_over"
                    /\ StartAttempt(1, promotions')
                    /\ UNCHANGED exc
     ELSE /\ pc' = "add_to_cart"
          /\ step' = "handed_over"
          /\ UNCHANGED <<agentVars, exc, calls, checkVars>>
          /\ StartAttempt(1, promotions)
  /\ ignore' = FALSE
  /\ status' = "unread"
  /\ UNCHANGED <<accountOrders, nCalls, inputVars>>

----------------------------------------------------------------------------
(* EpicGames: add_promotion_to_cart *)

S_404 == <<"4", "0", "4">>
S_PageNotFound == <<"P", "a", "g", "e", " ", "N", "o", "t", " ", "F", "o", "u", "n", "d">>
S_IN_LIBRARY == <<"I", "N", " ", "L", "I", "B", "R", "A", "R", "Y">>
S_OWNED == <<"O", "W", "N", "E", "D">>
S_UNAVAILABLE == <<"U", "N", "A", "V", "A", "I", "L", "A", "B", "L", "E">>
S_COMING_SOON == <<"C", "O", "M", "I", "N", "G", " ", "S", "O", "O", "N">>
S_CART == <<"C", "A", "R", "T">>

\* Line 309: the texts that are never clicked
Blacklist == {S_IN_LIBRARY, S_OWNED, S_UNAVAILABLE, S_COMING_SOON}

\* Line 267
IsNotFoundPage(title) == Contains(title, S_404) \/ Contains(title, S_PageNotFound)

\* A mutant: the cart test comes before the blacklist
ClassifyCartFirst(text) ==
  LET btn_text_upper == Upper(Strip(text))
  IN  IF Contains(btn_text_upper, S_CART) THEN "cart"
      ELSE IF \E s \in Blacklist : Contains(btn_text_upper, s) THEN "skip"
      ELSE "instant"

\* Lines 301-325: the route of a button text (None is the empty text)
Classify(text) ==
  LET btn_text_upper == Upper(Strip(text))
  IN  IF \E s \in Blacklist : Contains(btn_text_upper, s) THEN "skip"
      ELSE IF Contains(btn_text_upper, S_CART) THEN "cart"
      ELSE "instant"

\* Page titles
TitleNotFound == <<"4", "0", "4", " ", "|", " ", "E", "p", "i", "c">>
PageTitles == {TitleGame, TitleNotFound, S_PageNotFound}

\* Button texts
TxtAddToCart == <<"A", "d", "d", " ", "T", "o", " ", "C", "a", "r", "t">>
TxtLowerCart == <<"a", "d", "d", " ", "t", "o", " ", "c", "a", "r", "t">>
TxtInLibrary == <<"I", "n", " ", "L", "i", "b", "r", "a", "r", "y">>
TxtOwned == <<"o", "w", "n", "e", "d">>
TxtUnavailable == <<"U", "n", "a", "v", "a", "i", "l", "a", "b", "l", "e">>
TxtComingSoon == <<"C", "o", "m", "i", "n", "g", " ", "S", "o", "o", "n">>
TxtGet == <<" ", "G", "e", "t", " ">>
TxtBuyNow == <<"B", "u", "y", " ", "N", "o", "w">>
TxtCartSoon ==
  <<"C", "a", "r", "t", " ", "-", " ", "C", "o", "m", "i", "n", "g", " ",
    "S", "o", "o", "n">>

ButtonTexts ==
  {<<>>, TxtAddToCart, TxtLowerCart, TxtInLibrary, TxtOwned, TxtUnavailable,
   TxtComingSoon, TxtGet, TxtBuyNow, TxtCartSoon}

\* _active_purchase_container (lines 192-214): the place-order control found
\* by the text match, by the class match, or AssertionError
ContainerOutcomes == {"text_match", "class_match", "AssertionError"}

\* A mutant: a failed challenge ends the flow in the handler
HandleInstantCheckoutChallengeFatal(container, click, challenge, visible, reload) ==
  IF container = "AssertionError" \/ click # "ok" \/ challenge # "ok"
  THEN IF reload = "ok"
       THEN [how |-> "reloaded", exc |-> "none"]
       ELSE [how |-> "reload_failed", exc |-> reload]
  ELSE IF visible = "hidden" THEN [how |-> "button_disappeared", exc |-> "none"]
  ELSE IF visible = "raises" THEN [how |-> "iframe_closed", exc |-> "none"]
  ELSE [how |-> "blind_success", exc |-> "none"]

\* _handle_instant_checkout (lines 225-257) on the outcomes of its steps:
\* how it ends, and the exception it lets out ("none" if none)
HandleInstantCheckout(container, click, challenge, visible, reload) ==
  IF container = "AssertionError" \/ click # "ok"
  THEN IF reload = "ok"
       THEN [how |-> "reloaded", exc |-> "none"]
       ELSE [how |-> "reload_failed", exc |-> reload]
  ELSE IF visible = "hidden" THEN [how |-> "button_disappeared", exc |-> "none"]
  ELSE IF visible = "raises" THEN [how |-> "iframe_closed", exc |-> "none"]
  ELSE [how |-> "blind_success", exc |-> "none"]

\* How the steps of _handle_instant_checkout end: the search of the
\* place-order control, its click, the challenge, the visibility test, the
\* reload of the handler
Flows ==
  [container : ContainerOutcomes, click : Outcomes, challenge : {"ok", "failed"},
   visible : {"visible", "hidden", "raises"}, reload : Outcomes]

\* No instant checkout is under way
NoFlow ==
  [container |-> "none", click |-> "none", challenge |-> "none",
   visible |-> "none", reload |-> "none"]

\* The ways _handle_instant_checkout ends, over the outcomes of its steps
InstantCheckoutEnds ==
  {HandleInstantCheckout(f.container, f.click, f.challenge, f.visible, f.reload) :
     f \in Flows}

\* The exception e leaves the attempt of collect_weekly_games
Raise(e) ==
  /\ pc' = "attempt_failed"
  /\ exc' = e

\* The loop body goes on to the next URL
Continue(what) ==
  /\ pc' = "add_to_cart"
  /\ idx' = idx + 1
  /\ step' = what
  /\ UNCHANGED exc

\* A mutant: the flag tells of the last URL only
CartPendingLast(way, flag) == way = "cart"

\* Lines 315-319: the flag after a control was clicked on the route way
CartPending(way, flag) == IF way = "cart" THEN TRUE ELSE flag

\* One iteration of the loop of add_promotion_to_cart (lines 262-328)
AddPromotionToCart ==
  /\ pc = "add_to_cart"
  /\ idx <= Len(urls)
  /\ \E goto \in Outcomes :
       IF goto # "ok"
       THEN /\ Raise(goto)
            /\ step' = "goto_failed"
            /\ UNCHANGED <<idx, has_pending_cart_items, cartClicked>>
       ELSE \E title \in PageTitles :
         IF IsNotFoundPage(title)
         THEN /\ Continue("not_found")
              /\ UNCHANGED <<has_pending_cart_items, cartClicked>>
         ELSE \E visible \in {"visible", "hidden", "raises"} :
           IF visible = "hidden"
           THEN /\ \E what \in {"in_library_text", "no_button"} : Continue(what)
                /\ UNCHANGED <<has_pending_cart_items, cartClicked>>
           ELSE \E read \in {"ok", "TimeoutError"} :
             IF read # "ok"
             THEN /\ Raise(read)
                  /\ step' = "text_failed"
                  /\ UNCHANGED <<idx, has_pending_cart_items, cartClicked>>
             ELSE \E text \in ButtonTexts :
               LET way == Classify(text) IN
               IF way = "skip"
               THEN /\ Continue("skip")
                    /\ UNCHANGED <<has_pending_cart_items, cartClicked>>
               ELSE \E click \in Outcomes :
                 IF click # "ok"
                 THEN /\ Raise(click)
                      /\ step' = "click_failed"
                      /\ UNCHANGED <<idx, has_pending_cart_items, cartClicked>>
                 ELSE IF way = "cart"
                 THEN /\ has_pending_cart_items' = CartPending(way, has_pending_cart_items)
                      /\ cartClicked' = TRUE
                      /\ Continue("cart")
                 ELSE \E r \in InstantCheckoutEnds :
                   /\ has_pending_cart_items' = CartPending(way, has_pending_cart_items)
                   /\ UNCHANGED cartClicked
                   /\ IF r.exc # "none"
                      THEN /\ Raise(r.exc)
                           /\ step' = "instant_failed"
                           /\ UNCHANGED idx
                      ELSE Continue("instant")
  /\ UNCHANGED <<agentVars, ignore, attempt, urls, wait_rerender, purchaseTries,
                 accountOrders, cartPaid, nCalls, calls, status, checkVars, inputVars>>

----------------------------------------------------------------------------
(* EpicGames: collect_weekly_games, _purchase_free_game, _empty_cart *)

WaitRerenderDefault == 30
StopAfterAttempt == 2

\* A mutant: the purchase step runs whatever was reported
HasCartItemsAlways == TRUE

\* Line 380: what add_promotion_to_cart returned
HasCartItems == has_pending_cart_items

\* Lines 378-388: add_promotion_to_cart has returned
AfterAddToCart ==
  /\ pc = "add_to_cart"
  /\ idx > Len(urls)
  /\ IF HasCartItems
     THEN /\ pc' = "purchase"
          /\ purchaseTries' = 1
          /\ step' = "purchase_invoked"
     ELSE /\ pc' = "weekly_done"
          /\ step' = "nothing_pending"
          /\ UNCHANGED purchaseTries
  /\ UNCHANGED <<agentVars, ignore, exc, attempt, urls, idx, has_pending_cart_items,
                 wait_rerender, accountOrders, cartPaid, nCalls, calls, status,
                 checkVars, cartClicked, inputVars>>

\* _purchase_free_game, lines 356-358: to the cart, and _empty_cart is called
PurchaseFreeGame ==
  /\ pc = "purchase"
  /\ \E goto \in Outcomes :
       IF goto # "ok"
       THEN /\ Raise(goto)
            /\ step' = "cart_failed"
            /\ UNCHANGED wait_rerender
       ELSE /\ pc' = "empty_cart"
            /\ wait_rerender' = WaitRerenderDefault
            /\ step' = "cart_opened"
            /\ UNCHANGED exc
  /\ UNCHANGED <<agentVars, ignore, attempt, urls, idx, has_pending_cart_items,
                 purchaseTries, accountOrders, cartPaid, nCalls, calls, status,
                 checkVars, cartClicked, inputVars>>

\* A mutant: the countdown is not looked at
RescansWhilePaid(has_paid_free, countdown) == has_paid_free

\* Line 346: the scan that found paid items is followed by another one
Rescans(has_paid_free, countdown) == has_paid_free /\ countdown # 0

\* One scan of _empty_cart (lines 333-353). The paid items are moved to the
\* wishlist one by one; a click that times out ends the scan with False, a
\* card without the wishlist control raises AttributeError, and the item of
\* the failing click stays in the cart. A moved item may still be listed at
\* the next scan.
EmptyCart ==
  /\ pc = "empty_cart"
  /\ IF cartPaid = 0
     THEN /\ pc' = "checkout"
          /\ step' = "cart_clean"
          /\ wait_rerender' = 0
          /\ UNCHANGED <<exc, cartPaid>>
     ELSE \E end \in {"ok", "TimeoutError", "AttributeError"}, left \in 0..cartPaid :
            /\ end # "ok" => left > 0
            /\ cartPaid' = left
            /\ IF end = "AttributeError"
               THEN /\ Raise("Error")
                    /\ step' = "empty_cart_raised"
                    /\ wait_rerender' = 0
               ELSE IF end = "TimeoutError"
               THEN /\ pc' = "checkout"
                    /\ step' = "empty_cart_false"
                    /\ wait_rerender' = 0
                    /\ UNCHANGED exc
               ELSE IF Rescans(cartPaid > 0, wait_rerender)
               THEN /\ pc' = "empty_cart"
                    /\ wait_rerender' = wait_rerender - 1
                    /\ step' = "rescan"
                    /\ UNCHANGED exc
               ELSE /\ pc' = "checkout"
                    /\ step' = "countdown_exhausted"
                    /\ UNCHANGED <<exc, wait_rerender>>
  /\ UNCHANGED <<agentVars, ignore, attempt, urls, idx, has_pending_cart_items,
                 purchaseTries, accountOrders, nCalls, calls, status, checkVars,
                 cartClicked, inputVars>>

\* Lines 366-369: how the payment frame, the confirmation and the challenge
\* end: they return, or one of them raises
PaymentOutcomes == {"ok", "AssertionError", "TimeoutError", "Error"}

\* A mutant: the handler of the purchase catches nothing
CaughtInPurchaseNone(e) == FALSE

\* Line 370: the exceptions the handler of _purchase_free_game catches
CaughtInPurchase(e) == e \in {"AssertionError", "TimeoutError", "Error"}

\* A mutant: the purchase is given up after two runs
RunsAgainTwice(n) == n < 2

\* Line 373: the purchase runs again after n runs, whatever n
RunsAgain(n) == TRUE

\* The number of runs after one more; MaxPurchaseTries stands for itself and
\* every larger number
NextTry(n) == IF n < MaxPurchaseTries THEN n + 1 ELSE n

\* _purchase_free_game, lines 360-373: Check Out, the license, the payment
\* frame, the confirmation and the challenge; a failure of the latter three
\* reloads the page and runs _purchase_free_game again.
Checkout ==
  /\ pc = "checkout"
  /\ \E click \in Outcomes :
       IF click # "ok"
       THEN /\ Raise(click)
            /\ step' = "checkout_failed"
            /\ UNCHANGED purchaseTries
       ELSE \E license \in Outcomes :
         IF license = "Error"
         THEN /\ Raise(license)
              /\ step' = "license_failed"
              /\ UNCHANGED purchaseTries
         ELSE \E payment \in PaymentOutcomes :
           IF payment = "ok"
           THEN /\ pc' = "wait_url"
                /\ step' = "purchase_returned"
                /\ UNCHANGED <<exc, purchaseTries>>
           ELSE IF ~CaughtInPurchase(payment)
           THEN /\ Raise(payment)
                /\ step' = "payment_raised"
                /\ UNCHANGED purchaseTries
           ELSE \E reload \in Outcomes :
             IF reload # "ok"
             THEN /\ Raise(reload)
                  /\ step' = "reload_failed"
                  /\ UNCHANGED purchaseTries
             ELSE IF RunsAgain(purchaseTries)
             THEN /\ pc' = "purchase"
                  /\ purchaseTries' = NextTry(purchaseTries)
                  /\ step' = "purchase_again"
                  /\ UNCHANGED exc
             ELSE /\ pc' = "wait_url"
                  /\ step' = "gave_up"
                  /\ UNCHANGED <<exc, purchaseTries>>
  /\ UNCHANGED <<agentVars, ignore, attempt, urls, idx, has_pending_cart_items,
                 wait_rerender, accountOrders, cartPaid, nCalls, calls, status,
                 checkVars, cartClicked, inputVars>>

\* Lines 382-386: the wait for the cart-success URL
WaitForUrl ==
  /\ pc = "wait_url"
  /\ \E wait \in Outcomes :
       IF wait = "Error"
       THEN /\ Raise(wait)
            /\ step' = "wait_failed"
       ELSE /\ pc' = "weekly_done"
            /\ step' = IF wait = "ok" THEN "cart_success" ELSE "cart_timeout"
            /\ UNCHANGED exc
  /\ UNCHANGED <<agentVars, ignore, attempt, urls, idx, has_pending_cart_items,
                 wait_rerender, purchaseTries, accountOrders, cartPaid, nCalls,
                 calls, status, checkVars, cartClicked, inputVars>>

\* A mutant: every exception is retried
RetriedAny(e) == TRUE

\* Line 375: which exceptions the retry policy answers with a new attempt
Retried(e) == e = "TimeoutError"

\* Line 375: the retry policy of collect_weekly_games
RetryPolicy ==
  /\ pc = "attempt_failed"
  /\ IF Retried(exc) /\ attempt < StopAfterAttempt
     THEN /\ pc' = "add_to_cart"
          /\ exc' = "none"
          /\ step' = "retry"
          /\ StartAttempt(attempt + 1, promotions)
     ELSE /\ pc' = "weekly_raised"
          /\ step' = "reraised"
          /\ UNCHANGED <<exc, weeklyVars>>
  /\ UNCHANGED <<agentVars, ignore, accountOrders, nCalls, calls, status,
                 checkVars, inputVars>>

\* A mutant: the handler catches the timeout only
CaughtTimeoutOnly(e) == e = "TimeoutError"

\* Lines 171-172: the exceptions the handler of collect_epic_games catches
Caught(e) == e \in {"TimeoutError", "Error"}

\* Lines 168-174: collect_weekly_games has returned or raised
Finish ==
  /\ pc \in {"weekly_done", "weekly_raised"}
  /\ IF pc = "weekly_raised" /\ ~Caught(exc)
     THEN /\ pc' = "raised"
          /\ step' = "escaped"
          /\ UNCHANGED exc
     ELSE /\ pc' = "returned"
          /\ exc' = "none"
          /\ step' = IF pc = "weekly_raised" THEN "caught" ELSE "completed"
  /\ attempt' = 0
  /\ urls' = <<>>
  /\ idx' = 0
  /\ has_pending_cart_items' = FALSE
  /\ purchaseTries' = 0
  /\ wait_rerender' = 0
  /\ cartClicked' = FALSE
  /\ calls' = calls \cup {"collect_weekly_games"}
  /\ UNCHANGED <<agentVars, ignore, cartPaid, accountOrders, nCalls,
                 status, checkVars, inputVars>>

\* Between two calls the account gets an order
AccountOrder ==
  /\ pc \in {"returned", "raised"}
  /\ Len(accountOrders) < MaxOrders + MaxNewOrders
  /\ ~newOrders
  /\ \E ns \in {NsA, NsB} :
       accountOrders' = Append(accountOrders, Order("PURCHASE", <<OrderItem(ns)>>))
  /\ newOrders' = TRUE
  /\ step' = "account_order"
  /\ UNCHANGED <<agentVars, pc, ignore, exc, weeklyVars, nCalls, calls, status,
                 lastCheck, discovered, inputVars>>

----------------------------------------------------------------------------
(* The session *)

\* The agent as constructed (lines 102-109), no call running
Constructed ==
  /\ promotions = <<>>
  /\ ctx_cookies_is_available = FALSE
  /\ orders = <<>>
  /\ namespaces = <<>>
  /\ pc = "idle"
  /\ ignore = FALSE
  /\ exc = "none"
  /\ attempt = 0
  /\ urls = <<>>
  /\ idx = 0
  /\ has_pending_cart_items = FALSE
  /\ wait_rerender = 0
  /\ purchaseTries = 0
  /\ nCalls = 0
  /\ calls = {}
  /\ step = "init"
  /\ status = "unread"
  /\ lastCheck = "none"
  /\ discovered = <<>>
  /\ newOrders = FALSE
  /\ cartClicked = FALSE

Init ==
  /\ Constructed
  /\ accountOrders \in SessionHistories
  /\ cartPaid \in 0..MaxPaid
  /\ historyPage = HistoryPage("ok", "json", <<>>)
  /\ response = Response("ok", <<>>)
  /\ btn_text = <<>>
  /\ route = "none"
  /\ flow = NoFlow

Next ==
  \/ CollectEpicGames
  \/ ShouldIgnoreTask
  \/ Gate
  \/ AddPromotionToCart
  \/ AfterAddToCart
  \/ PurchaseFreeGame
  \/ EmptyCart
  \/ Checkout
  \/ WaitForUrl
  \/ RetryPolicy
  \/ Finish
  \/ AccountOrder

Spec == Init /\ [][Next]_vars

\* The session in which a scan of _empty_cart that has started goes on: the
\* event loop resumes the coroutine
SpecFair == Spec /\ WF_vars(EmptyCart)

----------------------------------------------------------------------------
(* The extraction of the order history on its own *)

ItemSamples == {OrderItem(ns) : ns \in {NsA, NsShort, NsLong, NsEmpty}}

OrderSamples ==
  {MalformedOrder} \cup
  {Order(type, items) : type \in {"PURCHASE", "REFUND"},
                        items \in SeqsOf(ItemSamples, 0, MaxItems)}

ExtractPages ==
  {HistoryPage("timeout", "json", <<>>), HistoryPage("ok", "invalid", <<>>),
   HistoryPage("ok", "no_orders", <<>>)}
  \cup {HistoryPage("ok", "json", records) : records \in SeqsOf(OrderSamples, 0, MaxOrders)}

InitExtract ==
  /\ Constructed
  /\ accountOrders = <<>>
  /\ cartPaid = 0
  /\ historyPage \in ExtractPages
  /\ response = Response("ok", <<>>)
  /\ btn_text = <<>>
  /\ route = "none"
  /\ flow = NoFlow

\* _sync_order_history is called on the page
SyncCall ==
  /\ pc = "idle"
  /\ LET s == SyncOrderHistory(orders, historyPage) IN
       /\ orders' = s.orders
       /\ calls' = (IF s.navigated THEN {"history_page"} ELSE {})
                    \cup (IF s.failed THEN {"sync_failed"} ELSE {})
  /\ pc' = "synced"
  /\ step' = "sync"
  /\ UNCHANGED <<promotions, ctx_cookies_is_available, namespaces, ignore, exc,
                 weeklyVars, accountOrders, nCalls, status, checkVars, inputVars>>

SpecExtract == InitExtract /\ [][SyncCall]_vars

----------------------------------------------------------------------------
(* The discovery on its own *)

OfferSamples == {Offer(0), Offer(50), MalformedOffer}

\* The elements the filter is tried on
ElementSamples ==
  {Element(NsA, shape, <<>>, <<PageSlugMapping(SlugPage)>>) : shape \in {"missing", "null", "empty"}}
  \cup {Element(NsA, "offers", offers, mappings) :
          offers \in SeqsOf(OfferSamples, 0, MaxOffers),
          mappings \in {<<>>, <<PageSlugMapping(SlugPage)>>, <<NoPageSlugMapping>>}}

\* The catalogs: an element alone, before and after another one
CatalogSamples ==
  UNION {{<<e>>, <<e, FreeGame(NsB)>>, <<PaidGame(NsB), e>>, <<FreeGame(NsB), e>>} :
           e \in ElementSamples}

DiscoveryResponses ==
  {Response("network_error", <<>>), Response("invalid_json", <<>>),
   Response("bad_shape", <<>>), Response("ok", <<>>)}
  \cup {Response("ok", elements) : elements \in CatalogSamples}

InitDiscovery ==
  /\ Constructed
  /\ accountOrders = <<>>
  /\ cartPaid = 0
  /\ historyPage = HistoryPage("ok", "json", <<>>)
  /\ response \in DiscoveryResponses
  /\ btn_text = <<>>
  /\ route = "none"
  /\ flow = NoFlow

\* get_promotions is called and the endpoint answers response
GetPromotionsCall ==
  /\ pc = "idle"
  /\ LET g == get_promotions(response) IN
       /\ discovered' = g.promotions
       /\ pc' = IF g.raised THEN "raised" ELSE "returned"
       /\ exc' = IF g.raised THEN "Error" ELSE "none"
  /\ step' = "discovery"
  /\ UNCHANGED <<agentVars, ignore, weeklyVars, accountOrders, nCalls, calls,
                 status, lastCheck, newOrders, inputVars>>

SpecDiscovery == InitDiscovery /\ [][GetPromotionsCall]_vars

----------------------------------------------------------------------------
(* The URL derivation on its own *)

SlugOther == "other-slug"
TitleLowerCollection == <<"m", "y", " ", "c", "o", "l", "l", "e", "c", "t", "i", "o", "n">>
PathLowerBundles == <<"b", "u", "n", "d", "l", "e", "s">>

\* A zero-percent element with the given fields; a missing or null
\* productSlug is the empty one, a missing offerMappings the empty list
UrlElement(type, paths, title, mappings, product, hasUrl) ==
  [namespace |-> NsA, title |-> title, promotions |-> "offers", offers |-> <<Offer(0)>>,
   offerType |-> type, categories |-> paths, offerMappings |-> mappings,
   productSlug |-> product, hasUrlSlug |-> hasUrl,
   urlSlug |-> IF hasUrl THEN SlugUrl ELSE ""]

UrlElementSamples ==
  {UrlElement(type, paths, title, mappings, product, hasUrl) :
     type \in {"BUNDLE", "BASE_GAME"},
     paths \in {<<>>, <<PathGames>>, <<PathGames, PathBundles>>, <<PathLowerBundles>>},
     title \in {TitleGame, TitleCollection, TitleLowerCollection},
     mappings \in {<<>>, <<PageSlugMapping(SlugPage)>>, <<NoPageSlugMapping>>,
                   <<PageSlugMapping(SlugOther), PageSlugMapping(SlugPage)>>},
     product \in {"", SlugProduct},
     hasUrl \in BOOLEAN}

UrlResponses ==
  UNION {{Response("ok", <<e>>), Response("ok", <<e, FreeGame(NsB)>>)} :
           e \in UrlElementSamples}

InitUrl ==
  /\ Constructed
  /\ accountOrders = <<>>
  /\ cartPaid = 0
  /\ historyPage = HistoryPage("ok", "json", <<>>)
  /\ response \in UrlResponses
  /\ btn_text = <<>>
  /\ route = "none"
  /\ flow = NoFlow

SpecUrl == InitUrl /\ [][GetPromotionsCall]_vars

----------------------------------------------------------------------------
(* The classification of the purchase control on its own *)

TxtAddTo == <<"A", "d", "d", " ", "t", "o", " ">>
TxtCart == <<"C", "a", "r", "t">>
TxtSpace == <<" ">>

Words ==
  {TxtAddTo, TxtCart, TxtLowerCart, TxtInLibrary, TxtOwned, TxtUnavailable,
   TxtComingSoon, TxtGet, TxtBuyNow, S_CART, S_OWNED, TxtSpace}

RECURSIVE Concat(_)
Concat(words) == IF words = <<>> THEN <<>> ELSE Head(words) \o Concat(Tail(words))

\* The texts of at most MaxWords words
TextSamples == {Concat(words) : words \in SeqsOf(Words, 0, MaxWords)}

InitClassify ==
  /\ Constructed
  /\ accountOrders = <<>>
  /\ cartPaid = 0
  /\ historyPage = HistoryPage("ok", "json", <<>>)
  /\ response = Response("ok", <<>>)
  /\ btn_text \in TextSamples
  /\ route = "none"
  /\ flow = NoFlow

\* Lines 301-328 on the text read: the route
ClassifyCall ==
  /\ pc = "idle"
  /\ route' = Classify(btn_text)
  /\ pc' = "classified"
  /\ step' = "classify"
  /\ UNCHANGED <<agentVars, ignore, exc, weeklyVars, accountOrders, nCalls, calls,
                 status, checkVars, historyPage, response, btn_text, flow>>

SpecClassify == InitClassify /\ [][ClassifyCall]_vars

----------------------------------------------------------------------------
(* The instant checkout on its own *)

InitInstant ==
  /\ Constructed
  /\ accountOrders = <<>>
  /\ cartPaid = 0
  /\ historyPage = HistoryPage("ok", "json", <<>>)
  /\ response = Response("ok", <<>>)
  /\ btn_text = <<>>
  /\ route = "none"
  /\ flow \in Flows

\* Line 328 in the loop of add_promotion_to_cart: the flow runs, and the
\* loop goes on to the next URL unless the flow lets an exception out
InstantCall ==
  /\ pc = "idle"
  /\ LET r == HandleInstantCheckout(flow.container, flow.click, flow.challenge,
                                    flow.visible, flow.reload) IN
       /\ route' = r.how
       /\ exc' = r.exc
       /\ pc' = IF r.exc = "none" THEN "next_url" ELSE "raised"
  /\ step' = "instant"
  /\ UNCHANGED <<agentVars, ignore, weeklyVars, accountOrders, nCalls, calls,
                 status, checkVars, historyPage, response, btn_text, flow>>

SpecInstant == InitInstant /\ [][InstantCall]_vars

----------------------------------------------------------------------------
(* Properties of the agent and the orchestrator, under Spec *)

\* C1: when the isloggedin attribute read on the claim page is "false", the
\* call returns at once: no order-history sync, no discovery, no
\* collect_weekly_games, nothing run a second time, the fields of the agent
\* untouched and the login flag false.
C1_NotLoggedInAborts ==
  /\ []((pc = "gate" /\ status = "false") =>
          (calls = {} /\ attempt = 0 /\ ~ctx_cookies_is_available))
  /\ [][(pc = "gate" /\ status = "false") =>
          (/\ pc' = "returned"
           /\ calls' = {}
           /\ attempt' = 0
           /\ ~ctx_cookies_is_available'
           /\ UNCHANGED <<promotions, orders, namespaces, discovered, lastCheck>>)]_vars

C1_Witness ==
  /\ pc = "returned"
  /\ step = "aborted"
  /\ calls = {}
  /\ ~ctx_cookies_is_available

\* The promotions of found whose namespace is none of the owned ones
NotOwned(found, owned) ==
  SelectSeq(found, LAMBDA p : p.namespace \notin {owned[i] : i \in 1..Len(owned)})

\* This step is a _check_orders call that returned
CheckReturned ==
  /\ calls' # calls
  /\ "discovery" \in calls'
  /\ lastCheck' = "ok"

\* C2 as claimed: a _check_orders call that follows one that returned, gets
\* the same discovery results and finds no new order in the account, leaves
\* the pending promotions as they were.
C2_IdempotentAsClaimed ==
  [][(CheckReturned /\ lastCheck = "ok" /\ discovered' = discovered /\ ~newOrders)
       => promotions' = promotions]_vars

\* C2, amended: after a _check_orders call that returned, the pending
\* promotions are the discovery results whose namespace is not owned; what is
\* handed to collect_weekly_games is not empty and holds no owned namespace;
\* and a _check_orders call that follows one that returned and left order
\* items in the session leaves the pending promotions as they were when it
\* gets the same discovery results.
C2_PendingIsDiscoveryMinusOwned ==
  /\ [](lastCheck = "ok" => promotions = NotOwned(discovered, namespaces))
  /\ [](attempt >= 1 =>
          /\ promotions # <<>>
          /\ \A i \in 1..Len(promotions) :
               promotions[i].namespace \notin {namespaces[j] : j \in 1..Len(namespaces)}
          /\ urls = [i \in 1..Len(promotions) |-> promotions[i].url])
  /\ [][(CheckReturned /\ lastCheck = "ok" /\ discovered' = discovered /\ orders # <<>>)
          => promotions' = promotions]_vars

C2_Witness ==
  /\ nCalls = 2
  /\ pc = "gate"
  /\ step = "check_ok"
  /\ "history_page" \notin calls
  /\ orders # <<>>
  /\ promotions # <<>>
  /\ Len(promotions) < Len(discovered)

\* C3: an exception that collect_weekly_games lets out, the timeout of the
\* second attempt or any other, is caught in collect_epic_games, which
\* returns.
C3_OrchestratorExceptionCaught ==
  /\ [](step # "escaped")
  /\ [][pc = "weekly_raised" => (pc' = "returned" /\ exc' = "none")]_vars

C3_Witness ==
  /\ pc = "returned"
  /\ step = "caught"

\* C4 as claimed: no exception leaves collect_epic_games.
C4_NothingEscapes == pc # "raised"

\* C5: collect_weekly_games is attempted at most twice; the second attempt
\* follows a first one that ended with TimeoutError; any other exception
\* leaves after the first attempt; the TimeoutError of the second attempt
\* leaves too.
C5_AtMostTwoAttempts ==
  /\ [](attempt <= 2)
  /\ [][(attempt >= 1 /\ attempt' = attempt + 1) =>
          (attempt = 1 /\ pc = "attempt_failed" /\ exc = "TimeoutError")]_vars
  /\ [][(pc = "attempt_failed" /\ (exc # "TimeoutError" \/ attempt = 2)) =>
          (pc' = "weekly_raised" /\ exc' = exc /\ attempt' = attempt)]_vars
  /\ [][(pc = "attempt_failed" /\ exc = "TimeoutError" /\ attempt = 1) =>
          (pc' = "add_to_cart" /\ attempt' = 2)]_vars

C5_Witness ==
  /\ pc = "weekly_raised"
  /\ attempt = 2
  /\ exc = "TimeoutError"

\* C6: in an attempt, _purchase_free_game runs if and only if
\* add_promotion_to_cart returned true, hence after the last URL; a timeout of
\* the wait for the cart-success URL is not raised; with nothing pending the
\* attempt ends without the cart and the checkout.
C6_PurchaseIffCartPending ==
  /\ [](purchaseTries >= 1 =>
          (has_pending_cart_items /\ cartClicked /\ idx = Len(urls) + 1))
  /\ [](pc \in {"purchase", "empty_cart", "checkout", "wait_url"} => purchaseTries >= 1)
  /\ [][(pc = "add_to_cart" /\ idx > Len(urls)) =>
          IF has_pending_cart_items
          THEN pc' = "purchase" /\ purchaseTries' = 1
          ELSE pc' = "weekly_done" /\ purchaseTries' = 0 /\ exc' = "none"]_vars
  /\ [][(pc = "wait_url" /\ pc' # "weekly_done") => exc' # "TimeoutError"]_vars

C6_Witness ==
  /\ pc = "weekly_done"
  /\ step = "cart_timeout"
  /\ purchaseTries >= 1
  /\ exc = "none"

\* C7: add_promotion_to_cart returns true if and only if the control of some
\* URL was on the cart route and clicked; a URL that is skipped or goes to
\* instant checkout leaves the flag as it was.
C7_TrueIffCartClicked ==
  /\ []((pc = "add_to_cart" /\ idx > Len(urls)) =>
          (has_pending_cart_items <=> cartClicked))
  /\ [][(pc = "add_to_cart" /\ pc' = "add_to_cart" /\ step' # "cart") =>
          has_pending_cart_items' = has_pending_cart_items]_vars
  /\ [][(pc = "add_to_cart" /\ pc' = "add_to_cart" /\ step' = "cart") =>
          has_pending_cart_items']_vars

C7_Witness ==
  /\ pc = "add_to_cart"
  /\ idx > Len(urls)
  /\ idx = 3
  /\ step = "instant"
  /\ has_pending_cart_items

----------------------------------------------------------------------------
(* Properties of the classification, under SpecClassify *)

\* The text holds term, whatever the case of its letters
HoldsTerm(text, term) == Contains(Lower(text), Lower(term))

HoldsBlacklistTerm(text) ==
  \/ HoldsTerm(text, S_IN_LIBRARY)
  \/ HoldsTerm(text, S_OWNED)
  \/ HoldsTerm(text, S_UNAVAILABLE)
  \/ HoldsTerm(text, S_COMING_SOON)

\* C8 as claimed: a text with a blacklist term is skipped, a text with CART
\* goes to the cart route, any other text to the aggressive click.
C8_RoutesAsClaimed ==
  pc = "classified" =>
    /\ HoldsBlacklistTerm(btn_text) => route = "skip"
    /\ HoldsTerm(btn_text, S_CART) => route = "cart"
    /\ (~HoldsBlacklistTerm(btn_text) /\ ~HoldsTerm(btn_text, S_CART)) => route = "instant"

\* C8, amended: the route is a function of the text alone and one of three:
\* skip for a text with a blacklist term, the cart route for a text with CART
\* and no blacklist term, the aggressive click for any other text.
C8_OneRoutePerText ==
  pc = "classified" =>
    /\ route \in {"skip", "cart", "instant"}
    /\ route = "skip" <=> HoldsBlacklistTerm(btn_text)
    /\ route = "cart" <=> (HoldsTerm(btn_text, S_CART) /\ ~HoldsBlacklistTerm(btn_text))
    /\ route = "instant" <=> (~HoldsTerm(btn_text, S_CART) /\ ~HoldsBlacklistTerm(btn_text))

C8_Witness ==
  /\ pc = "classified"
  /\ route = "skip"
  /\ HoldsTerm(btn_text, S_CART)
  /\ HoldsTerm(btn_text, S_COMING_SOON)

----------------------------------------------------------------------------
(* Properties of the extraction, under SpecExtract *)

\* The items of the records, each with the type of its order, in order
RECURSIVE TypedItems(_)
TypedItems(records) ==
  IF records = <<>> THEN <<>>
  ELSE [i \in 1..Len(Head(records).items) |->
          [orderType |-> Head(records).orderType, item |-> Head(records).items[i]]]
       \o TypedItems(Tail(records))

\* The item of a PURCHASE order with a namespace of 32 characters
Qualifies(typed) == typed.orderType = "PURCHASE" /\ Len(typed.item.namespace) = 32

QualifyingItems(records) ==
  LET kept == SelectSeq(TypedItems(records), Qualifies)
  IN  [i \in 1..Len(kept) |-> kept[i].item]

----------------------------------------------------------------------------
(* Properties of the discovery, under SpecDiscovery *)

\* The array of the element holds a zero-percent offer
HasZeroPercentOffer(e) ==
  /\ e.promotions = "offers"
  /\ \E i \in 1..Len(e.offers) :
       e.offers[i].shape = "ok" /\ e.offers[i].discountPercentage = 0

\* The array holds a zero-percent offer with no malformed offer before it
HasZeroPercentOfferInReach(e) ==
  /\ e.promotions = "offers"
  /\ \E i \in 1..Len(e.offers) :
       /\ e.offers[i].shape = "ok"
       /\ e.offers[i].discountPercentage = 0
       /\ \A j \in 1..(i - 1) : e.offers[j].shape = "ok"

\* The first offer mapping of the element, if any, has a page slug
SlugInReach(e) == e.offerMappings = <<>> \/ ~e.offerMappings[1].absent

NamespacesIn(seq) == [i \in 1..Len(seq) |-> seq[i].namespace]

\* C10 as claimed: the elements returned are those whose array holds a
\* zero-percent offer, none is left out and the call does not raise.
C10_ReturnedIffZeroPercent ==
  (pc # "idle" /\ response.status = "ok") =>
    /\ pc = "returned"
    /\ NamespacesIn(discovered) =
         NamespacesIn(SelectSeq(response.elements, HasZeroPercentOffer))

\* C10, amended: the elements returned are those whose array holds a
\* zero-percent offer with no malformed offer before it and whose slug
\* extraction does not fail; every other element is left out and the call
\* does not raise.
C10_ReturnedIffZeroPercentInReach ==
  (pc # "idle" /\ response.status = "ok") =>
    /\ pc = "returned"
    /\ NamespacesIn(discovered) =
         NamespacesIn(SelectSeq(response.elements,
                                LAMBDA e : HasZeroPercentOfferInReach(e) /\ SlugInReach(e)))

C10_Witness ==
  /\ pc = "returned"
  /\ response.status = "ok"
  /\ Len(response.elements) = 2
  /\ response.elements[2].offers = <<Offer(50), Offer(0)>>
  /\ NamespacesIn(discovered) = <<NsB, NsA>>

----------------------------------------------------------------------------
(* Properties of the URL derivation, under SpecUrl *)

\* The element is a bundle: by its offer type, else by a category path with
\* "bundle" whatever the case, else by a title with "Collection"
ClaimedBundle(e) ==
  \/ e.offerType = "BUNDLE"
  \/ \E i \in 1..Len(e.categories) : HoldsTerm(e.categories[i], S_bundle)
  \/ Contains(e.title, S_Collection)

ClaimedBase(e) ==
  IF ClaimedBundle(e)
  THEN "https://store.epicgames.com/en-US/bundles/"
  ELSE "https://store.epicgames.com/en-US/p/"

\* The slug by priority: the page slug of the first offer mapping, the
\* product slug, the URL slug, "unknown"
ClaimedSlug(e) ==
  IF e.offerMappings # <<>> THEN e.offerMappings[1].pageSlug
  ELSE IF e.productSlug # "" THEN e.productSlug
  ELSE IF e.hasUrlSlug THEN e.urlSlug
  ELSE "unknown"

\* The slug extraction of the element meets a missing key
SlugKeyError(e) == e.offerMappings # <<>> /\ e.offerMappings[1].absent

----------------------------------------------------------------------------
(* Properties of the purchase, under Spec *)

\* Where a run of _purchase_free_game stands
PurchasePcs == {"purchase", "empty_cart", "checkout"}

\* C12 as claimed: no step of _purchase_free_game lets an exception out.
C12_NoPurchaseStepPropagates ==
  [][(pc \in PurchasePcs) => (pc' # "attempt_failed")]_vars

\* C12, amended: an exception of the payment frame, the confirmation or the
\* challenge is not let out: the page is reloaded and the purchase runs again
\* from the cart navigation; the exceptions that leave _purchase_free_game
\* are those of the cart navigation, of _empty_cart, of Check Out, of the
\* license and of the reload.
C12_PaymentFailureRerunsPurchase ==
  /\ [](step # "payment_raised")
  /\ [][(pc = "checkout" /\ step' = "purchase_again") =>
          (pc' = "purchase" /\ exc' = "none" /\ purchaseTries' >= purchaseTries)]_vars
  /\ [][(pc = "purchase" /\ pc' \in PurchasePcs) =>
          (pc' = "empty_cart" /\ step' = "cart_opened")]_vars
  /\ [][(pc \in PurchasePcs /\ pc' = "attempt_failed") =>
          step' \in {"cart_failed", "empty_cart_raised", "checkout_failed",
                      "license_failed", "reload_failed"}]_vars

C12_Witness ==
  /\ pc = "empty_cart"
  /\ step = "cart_opened"
  /\ purchaseTries = 2

C14_CheckoutOnlyAfterCleanScan ==
  [][(pc = "checkout" /\ step' # "checkout_failed") => step = "cart_clean"]_vars

----------------------------------------------------------------------------
(* Properties of _empty_cart, under SpecFair *)

\* C15 as claimed: _empty_cart ends by returning, False after a timeout and
\* True otherwise.
C15_AlwaysReturns ==
  [][(pc = "empty_cart" /\ pc' # "empty_cart") => pc' = "checkout"]_vars

\* C15, amended: _empty_cart ends; called with the countdown 30 it scans at
\* most 31 times, a scan being followed by another one only when it found a
\* paid item and the countdown is not used up; it returns True after a scan
\* without paid items and when the countdown is used up, False after a
\* timeout, and lets any other exception out.
C15_TerminatesWithinCountdown ==
  /\ (pc = "empty_cart") ~> (pc # "empty_cart")
  /\ [](pc = "empty_cart" => wait_rerender \in 0..WaitRerenderDefault)
  /\ [][(pc = "purchase" /\ pc' = "empty_cart") => wait_rerender' = 30]_vars
  /\ [][(pc = "empty_cart" /\ pc' = "empty_cart") =>
          (cartPaid > 0 /\ wait_rerender > 0 /\ wait_rerender' = wait_rerender - 1)]_vars
  /\ [][(pc = "empty_cart" /\ pc' # "empty_cart") =>
          \/ pc' = "checkout" /\ step' = "cart_clean" /\ cartPaid = 0
          \/ pc' = "checkout" /\ step' = "countdown_exhausted"
               /\ cartPaid > 0 /\ wait_rerender = 0
          \/ pc' = "checkout" /\ step' = "empty_cart_false" /\ cartPaid > 0
          \/ pc' = "attempt_failed" /\ step' = "empty_cart_raised"
               /\ exc' = "Error" /\ cartPaid > 0]_vars

C15_Witness ==
  /\ pc = "checkout"
  /\ step = "countdown_exhausted"
  /\ cartPaid > 0

----------------------------------------------------------------------------
(* Properties of the instant checkout, under SpecInstant *)

\* The flow failed outside the challenge: the place-order control was not
\* found, or its click failed
FlowFailed == flow.container = "AssertionError" \/ flow.click # "ok"

\* C16 as claimed: _handle_instant_checkout lets no exception out and the
\* loop goes on to the next URL in every case.
C16_NeverPropagates == pc # "idle" => (pc = "next_url" /\ exc = "none")

\* C16, amended: a failed challenge changes nothing, the flow goes on to the
\* visibility test; a failure of the search or of the click is followed by a
\* reload; the loop goes on to the next URL unless that reload fails, whose
\* exception is then let out.
C16_PropagatesOnlyReloadFailure ==
  pc # "idle" =>
    /\ ~FlowFailed =>
         /\ pc = "next_url"
         /\ exc = "none"
         /\ route = (IF flow.visible = "hidden" THEN "button_disappeared"
                     ELSE IF flow.visible = "raises" THEN "iframe_closed"
                     ELSE "blind_success")
    /\ (FlowFailed /\ flow.reload = "ok") =>
         (pc = "next_url" /\ exc = "none" /\ route = "reloaded")
    /\ (FlowFailed /\ flow.reload # "ok") =>
         (pc = "raised" /\ exc = flow.reload)

C16_Witness ==
  /\ pc = "next_url"
  /\ flow.challenge = "failed"
  /\ flow.visible = "visible"
  /\ route = "blind_success"

----------------------------------------------------------------------------
(* Properties of a failed extraction, under SpecExtract *)

\* The records before the first one that Order(**_order) rejects
RECURSIVE RecordsRead(_)
RecordsRead(records) ==
  IF records = <<>> \/ Head(records).shape # "ok" THEN <<>>
  ELSE <<Head(records)>> \o RecordsRead(Tail(records))

\* C17 as claimed: a sync that failed leaves the order history of the
\* session empty.
C17_FailedSyncLeavesEmpty ==
  (pc = "synced" /\ "sync_failed" \in calls) => orders = <<>>

\* C17, amended: a sync that failed lets no exception out; it leaves the
\* order history empty when the navigation or the parsing failed, and leaves
\* the qualifying items of the records read before the failing one when a
\* record failed.
C17_FailedSyncKeepsItemsRead ==
  pc # "idle" =>
    /\ pc = "synced"
    /\ exc = "none"
    /\ "sync_failed" \in calls =>
         IF historyPage.nav # "ok" \/ historyPage.body # "json"
         THEN orders = <<>>
         ELSE /\ Len(RecordsRead(historyPage.records)) < Len(historyPage.records)
              /\ orders = QualifyingItems(RecordsRead(historyPage.records))

C17_Witness ==
  /\ pc = "synced"
  /\ "sync_failed" \in calls
  /\ historyPage.records = <<Order("PURCHASE", <<OrderItem(NsA)>>), MalformedOrder>>
  /\ orders = <<OrderItem(NsA)>>

----------------------------------------------------------------------------
(* Properties of the session's order history and of the gate, under Spec *)

\* This step visits the order-history page
VisitsHistoryPage == "history_page" \in calls' /\ "history_page" \notin calls

\* C18 as claimed: once a sync of the session has completed, no later sync
\* visits the order-history page.
C18_PopulatedAtMostOnce ==
  [][VisitsHistoryPage => lastCheck = "none"]_vars

\* C18, amended: once the session holds order items, no sync visits the
\* order-history page and the order items and the owned namespaces stay as
\* they are; the page is visited only while the session holds no order item,
\* however many syncs have completed.
C18_PopulatedOnceNotEmpty ==
  /\ [][VisitsHistoryPage => orders = <<>>]_vars
  /\ [][orders # <<>> => (orders' = orders /\ namespaces' = namespaces)]_vars
  /\ [](orders # <<>> => namespaces = NamespacesOf(orders))

C18_Witness ==
  /\ nCalls = 2
  /\ "sync" \in calls
  /\ "history_page" \notin calls
  /\ orders # <<>>
  /\ lastCheck = "raised"

\* C19 as claimed: _should_ignore_task returns True when the user is not
\* logged in and when no promotion is pending after the check, False when the
\* user is logged in and a promotion is pending.
C19_TrueWhenNotLoggedIn ==
  pc = "gate" => (ignore <=> (status = "false" \/ promotions = <<>>))

\* C19, amended: _should_ignore_task returns True exactly when the user is
\* logged in and the check leaves no promotion pending. When the user is not
\* logged in it returns False, with no check run and the login flag false;
\* when the user is logged in the check has run and the login flag is true.
C19_TrueIffLoggedInAndNonePending ==
  pc = "gate" =>
    /\ ignore <=> (status # "false" /\ promotions = <<>>)
    /\ status = "false" => (~ignore /\ ~ctx_cookies_is_available /\ "sync" \notin calls)
    /\ status # "false" => (ctx_cookies_is_available /\ {"sync", "discovery"} \subseteq calls)

C19_Witness ==
  /\ pc = "gate"
  /\ status = "false"
  /\ ~ignore
  /\ promotions = <<>>

\* C20: in one call of collect_epic_games _check_orders runs at most once:
\* past the two early returns the pending promotions are not empty, and the
\* step after the gate runs no check and no discovery.
C20_CheckedOncePerCall ==
  /\ []("check_orders_again" \notin calls)
  /\ []((pc = "gate" /\ ~ignore /\ ctx_cookies_is_available) => promotions # <<>>)
  /\ [][pc = "gate" =>
          (/\ calls' = calls
           /\ UNCHANGED <<promotions, orders, namespaces, discovered, lastCheck>>
           /\ (pc' = "returned" <=> (ignore \/ ~ctx_cookies_is_available))
           /\ (pc' = "add_to_cart" <=> (~ignore /\ ctx_cookies_is_available)))]_vars

C20_Witness ==
  /\ pc = "add_to_cart"
  /\ step = "handed_over"
  /\ attempt = 1
  /\ calls = {"sync", "discovery", "history_page"}
  /\ promotions # <<>>

====
